---- MODULE Spec2Model ----
(***************************************************************************)
(* MFA Enforcement Controller (UserMFAManager) of the identity service.    *)
(*                                                                         *)
(* One user record (auth_type, mfa sub-state, required_actions), the       *)
(* Secret Store that holds OTP secrets, and the six Controller operations. *)
(* Every operation is a pure function of the user record and of the        *)
(* Secret Store (lower-case operators, named after the methods); an action *)
(* applies one operation and persists what it returned, as the calling     *)
(* service does.                                                           *)
(***************************************************************************)
EXTENDS Integers, FiniteSets, Sequences, TLC

\* Number of secret ids the Secret Store can hand out in one behaviour.
MaxSecrets == 2

SecretIds == 1..MaxSecrets

\* How often the deletion of one secret id is asked for in one behaviour.
MaxDeleteRequests == 2

\* Number of secret ids the Secret Store hands out while two callers race.
MaxRaceSecrets == 1

\* Number of SMTP connections created in one behaviour.
MaxConns == 3

AuthTypes == {"LOCAL", "EXTERNAL"}

\* mfa.get("mfa_type") of a record without the key (Python's None).
Absent == "ABSENT"

\* The type tags a caller may pass; "SMS" stands for any unregistered tag.
RequestTypes == {"OTP", "EMAIL", "SMS"}

\* Tags with a registered Type Strategy.
SupportedTypes == {"EMAIL", "OTP"}

MFAStates == {"DISABLED", "ENABLED"}

\* Required-action tags; UPDATE_PASSWORD stands for any tag other than ENFORCE_MFA.
ActionTags == {"ENFORCE_MFA", "UPDATE_PASSWORD"}

Emails == {"a@example.com"}

(***************************************************************************)
(* options: a mapping from some of the keys enforce, email, user_secret_id *)
(* to values (a Python dict).                                              *)
(***************************************************************************)
EmptyOptions == [k \in {} |-> TRUE]

Has(o, k) == k \in DOMAIN o

\* dict.get(k): the value, or None (falsy) when the key is missing.
Truthy(o, k) == IF k \in DOMAIN o THEN o[k] = TRUE ELSE FALSE

\* dict.pop(k, None)
Pop(o, k) == [x \in (DOMAIN o) \ {k} |-> o[x]]

\* {**a, **b}
Merge(a, b) == [x \in (DOMAIN a) \cup (DOMAIN b) |-> IF x \in DOMAIN b THEN b[x] ELSE a[x]]

Put(o, k, v) == [x \in (DOMAIN o) \cup {k} |-> IF x = k THEN v ELSE o[x]]

\* {"enforce": True}
EnforceOnly == [k \in {"enforce"} |-> TRUE]

\* The options mappings a caller passes to PrepareToEnable.
CallerOptions ==
    { Merge(e, m) :
        e \in {EmptyOptions} \cup {[k \in {"enforce"} |-> b] : b \in BOOLEAN},
        m \in {EmptyOptions} \cup {[k \in {"email"} |-> a] : a \in Emails} }

\* The mfa of a user that never had one: state defaults to DISABLED.
DefaultMFA == [mfa_type |-> Absent, state |-> "DISABLED", options |-> EmptyOptions]

VARIABLES
    auth_type,          \* user_vo.auth_type
    mfa,                \* user_vo.mfa: [mfa_type, state, options]
    required_actions,   \* user_vo.required_actions, as a set
    secrets,            \* ids of the secrets that exist in the Secret Store
    issued,             \* how many secret ids the Secret Store has handed out
    op,                 \* the last operation called ("none" before the first)
    err,                \* its outcome: "OK" or the error it raised
    arg_type,           \* the mfa_type it was called with (Absent if none)
    arg_options,        \* the options it was called with
    pre,                \* [mfa, required_actions, secrets] before the call
    store_up,           \* whether the Secret Store answered during the call
    enforced_type,      \* the type of the last SetEnforcement, for as long as only
                        \* PrepareToEnable and confirmations have followed it
    deletes,            \* secret ids the call asked the Secret Store to delete
    calls,              \* Type Strategy calls the call made
    delete_requests,    \* per watched secret id, how often its deletion was
                        \* asked for (SpecDel watches every id, the others none)
    inflight,           \* SpecRace: per caller, the call that has loaded the
                        \* user and run, and whose result is not persisted yet
    arbitration,        \* SpecRace: whether the storage layer rejects a persist
                        \* whose loaded mfa is stale
    methods,            \* SpecSMTP, fallback connector: self._connection_methods
    f_smtp,             \* fallback connector: self.smtp (NoConn for None)
    p_smtp,             \* provider connector: self.smtp (NoConn for None)
    p_block,            \* provider connector: "before", "inside" or "after" its
                        \* with-block
    p_opened,           \* connections the provider connector's send_email opened
    conn_count,         \* how many smtplib.SMTP connections were created
    conn_open,          \* the connections that are open
    conn_authed,        \* the connections that have authenticated
    last                \* the last connector call and its outcome

vars == <<auth_type, mfa, required_actions, secrets, issued,
          op, err, arg_type, arg_options, store_up, pre, enforced_type,
          deletes, calls, delete_requests, inflight, arbitration,
          methods, f_smtp, p_smtp, p_block, p_opened, conn_count, conn_open,
          conn_authed, last>>

\* The variables of the MFA Enforcement Controller and of its callers.
mfa_vars == <<auth_type, mfa, required_actions, secrets, issued,
              op, err, arg_type, arg_options, store_up, pre, enforced_type,
              deletes, calls, delete_requests, inflight, arbitration>>

\* The variables of the SMTP connectors.
smtp_vars == <<methods, f_smtp, p_smtp, p_block, p_opened, conn_count, conn_open,
               conn_authed, last>>

\* The user record the operations read.
User == [auth_type |-> auth_type, mfa |-> mfa, required_actions |-> required_actions]

(***************************************************************************)
(* What an operation hands back: its outcome, the mfa and required_actions *)
(* it returns (those of the user when it raises), the Secret Store after   *)
(* it, and the calls it made on its collaborators.                         *)
(***************************************************************************)
Result(e, m, ra, s, i, d, c) ==
    [err |-> e, mfa |-> m, required_actions |-> ra, secrets |-> s, issued |-> i,
     deletes |-> d, calls |-> c]

\* An operation that raises e: nothing is returned, the user is as it was.
Raise(e, u, s, i, d, c) == Result(e, u.mfa, u.required_actions, s, i, d, c)

\* user_vo.mfa as a dict of its own (a copy: the user changes only when persisted).
_get_user_mfa_as_dict(u) == u.mfa

\* The pending mfa sub-state a confirmation works on.
_get_user_mfa_for_confirmation(u) == u.mfa

(***************************************************************************)
(* Secret Store: DeleteUserSecret(domain, id, system token) -> error.      *)
(* up: the store answers; deleting an id it does not hold is an error too. *)
(***************************************************************************)
delete_user_secret_with_system_token(s, id, up) ==
    [ok |-> up /\ id \in s, secrets |-> IF up THEN s \ {id} ELSE s]

\* No Secret Store call was made.
NoDelete(s) == [ok |-> TRUE, secrets |-> s, deletes |-> {}]

_delete_otp_secret(u, s, up) ==
    LET user_mfa == _get_user_mfa_as_dict(u) IN
    IF Has(user_mfa.options, "user_secret_id")
    THEN LET id == user_mfa.options["user_secret_id"]
             r == delete_user_secret_with_system_token(s, id, up)
         IN [ok |-> r.ok, secrets |-> r.secrets, deletes |-> {id}]
    ELSE NoDelete(s)

(***************************************************************************)
(* Type Strategy (MFAManager and its OTP and EMAIL variants).              *)
(***************************************************************************)
\* MFAManager.get_manager_by_mfa_type: is a strategy registered for the tag?
get_manager_by_mfa_type(t) == t \in SupportedTypes

\* EnableMFA. OTP provisions secret i+1 and stores its reference in the
\* options; EMAIL sends a code to options.email and returns the mfa as it is.
enable_mfa(user_mfa, s, i) ==
    IF user_mfa.mfa_type = "OTP"
    THEN [mfa |-> [user_mfa EXCEPT !.options = Put(@, "user_secret_id", i + 1)],
          secrets |-> s \cup {i + 1}, issued |-> i + 1]
    ELSE [mfa |-> user_mfa, secrets |-> s, issued |-> i]

\* ConfirmMFA. code_ok: the submitted code is the expected one. An OTP code is
\* validated against the user's secret, which must exist.
confirm_mfa(user_mfa, s, code_ok) ==
    IF user_mfa.mfa_type = "OTP"
    THEN /\ code_ok
         /\ Has(user_mfa.options, "user_secret_id")
         /\ user_mfa.options["user_secret_id"] \in s
    ELSE code_ok

\* SetMFAOptions: the options as stored once the type is confirmed.
set_mfa_options(user_mfa) == user_mfa

(***************************************************************************)
(* The Controller operations.                                              *)
(***************************************************************************)
\* set_enforcement with the type comparison inverted (== for !=).
set_enforcement_local_inverted(u, mfa_type, s, i, up) ==
    LET user_mfa == _get_user_mfa_as_dict(u)
        switch   == user_mfa.mfa_type = mfa_type
        del      == IF switch /\ user_mfa.mfa_type = "OTP"
                    THEN _delete_otp_secret(u, s, up)
                    ELSE NoDelete(s)
    IN IF ~del.ok
       THEN Raise("SecretStoreError", u, del.secrets, i, del.deletes, {})
       ELSE Result("OK",
                   [mfa_type |-> mfa_type,
                    state    |-> IF switch THEN "DISABLED" ELSE user_mfa.state,
                    options  |-> EnforceOnly],
                   u.required_actions \cup {"ENFORCE_MFA"},
                   del.secrets, i, del.deletes, {})

\* set_enforcement returning ENFORCE_MFA as the only required action.
set_enforcement_local_only_enforce(u, mfa_type, s, i, up) ==
    LET user_mfa == _get_user_mfa_as_dict(u)
        switch   == user_mfa.mfa_type # mfa_type
        del      == IF switch /\ user_mfa.mfa_type = "OTP"
                    THEN _delete_otp_secret(u, s, up)
                    ELSE NoDelete(s)
    IN IF ~del.ok
       THEN Raise("SecretStoreError", u, del.secrets, i, del.deletes, {})
       ELSE Result("OK",
                   [mfa_type |-> mfa_type,
                    state    |-> IF switch THEN "DISABLED" ELSE user_mfa.state,
                    options  |-> EnforceOnly],
                   {"ENFORCE_MFA"},
                   del.secrets, i, del.deletes, {})

set_enforcement_local(u, mfa_type, s, i, up) ==
    LET user_mfa == _get_user_mfa_as_dict(u)
        switch   == user_mfa.mfa_type # mfa_type
        del      == IF switch /\ user_mfa.mfa_type = "OTP"
                    THEN _delete_otp_secret(u, s, up)
                    ELSE NoDelete(s)
    IN IF ~del.ok
       THEN Raise("SecretStoreError", u, del.secrets, i, del.deletes, {})
       ELSE Result("OK",
                   [mfa_type |-> mfa_type,
                    state    |-> IF switch THEN "DISABLED" ELSE user_mfa.state,
                    options  |-> EnforceOnly],
                   u.required_actions \cup {"ENFORCE_MFA"},
                   del.secrets, i, del.deletes, {})

set_enforcement(u, mfa_type, s, i, up) ==
    IF u.auth_type = "EXTERNAL"
    THEN Raise("NotAllowed", u, s, i, {}, {})
    ELSE set_enforcement_local(u, mfa_type, s, i, up)

\* unset_enforcement without the clearing of mfa_type in state DISABLED.
unset_enforcement_keeps_type(u, s, i) ==
    LET user_mfa == _get_user_mfa_as_dict(u) IN
    Result("OK",
           [user_mfa EXCEPT !.options = Pop(@, "enforce")],
           u.required_actions \ {"ENFORCE_MFA"},
           s, i, {}, {})

\* unset_enforcement clearing the whole options mapping, not the enforce key.
unset_enforcement_clears_options(u, s, i) ==
    LET user_mfa == _get_user_mfa_as_dict(u) IN
    Result("OK",
           [mfa_type |-> IF user_mfa.state = "DISABLED" THEN Absent ELSE user_mfa.mfa_type,
            state    |-> user_mfa.state,
            options  |-> EmptyOptions],
           u.required_actions \ {"ENFORCE_MFA"},
           s, i, {}, {})

unset_enforcement(u, s, i) ==
    LET user_mfa == _get_user_mfa_as_dict(u) IN
    Result("OK",
           [mfa_type |-> IF user_mfa.state = "DISABLED" THEN Absent ELSE user_mfa.mfa_type,
            state    |-> user_mfa.state,
            options  |-> Pop(user_mfa.options, "enforce")],
           u.required_actions \ {"ENFORCE_MFA"},
           s, i, {}, {})

\* reset_user_mfa popping mfa_type whether or not the type is enforced.
reset_user_mfa_pops_type(u, s, i, up) ==
    IF u.mfa.state = "DISABLED" \/ u.mfa.mfa_type = Absent
    THEN Raise("AlreadyDisabled", u, s, i, {}, {})
    ELSE
    LET user_mfa == _get_user_mfa_as_dict(u)
        del      == IF user_mfa.mfa_type = "OTP" /\ user_mfa.state = "ENABLED"
                    THEN _delete_otp_secret(u, s, up)
                    ELSE NoDelete(s)
        enforced == Truthy(user_mfa.options, "enforce")
    IN IF ~del.ok
       THEN Raise("SecretStoreError", u, del.secrets, i, del.deletes, {})
       ELSE Result("OK",
                   [mfa_type |-> Absent,
                    state    |-> "DISABLED",
                    options  |-> user_mfa.options],
                   IF enforced THEN u.required_actions \cup {"ENFORCE_MFA"}
                               ELSE u.required_actions,
                   del.secrets, i, del.deletes, {})

reset_user_mfa(u, s, i, up) ==
    IF u.mfa.state = "DISABLED" \/ u.mfa.mfa_type = Absent
    THEN Raise("AlreadyDisabled", u, s, i, {}, {})
    ELSE
    LET user_mfa == _get_user_mfa_as_dict(u)
        del      == IF user_mfa.mfa_type = "OTP" /\ user_mfa.state = "ENABLED"
                    THEN _delete_otp_secret(u, s, up)
                    ELSE NoDelete(s)
        enforced == Truthy(user_mfa.options, "enforce")
    IN IF ~del.ok
       THEN Raise("SecretStoreError", u, del.secrets, i, del.deletes, {})
       ELSE Result("OK",
                   [mfa_type |-> IF enforced THEN user_mfa.mfa_type ELSE Absent,
                    state    |-> "DISABLED",
                    options  |-> user_mfa.options],
                   IF enforced THEN u.required_actions \cup {"ENFORCE_MFA"}
                               ELSE u.required_actions,
                   del.secrets, i, del.deletes, {})

\* Raises InvalidParameter when TRUE.
_check_mfa_is_enforced(user_mfa, mfa_type) ==
    /\ Truthy(user_mfa.options, "enforce")
    /\ user_mfa.mfa_type # Absent
    /\ mfa_type # user_mfa.mfa_type

\* _check_mfa_options asking the email of the other supported type.
_check_mfa_options_wrong_type(options, mfa_type) ==
    mfa_type = "OTP" /\ ~Has(options, "email")

\* Raises RequiredParameter when TRUE.
_check_mfa_options(options, mfa_type) ==
    mfa_type = "EMAIL" /\ ~Has(options, "email")

\* prepared_mfa with the state set to ENABLED at once, not kept.
prepared_mfa_enabled(user_mfa, mfa_type, options) ==
    [mfa_type |-> mfa_type,
     state    |-> "ENABLED",
     options  |-> Merge(user_mfa.options, options)]

\* The mfa handed to the Type Strategy's EnableMFA.
prepared_mfa(user_mfa, mfa_type, options) ==
    [mfa_type |-> mfa_type,
     state    |-> user_mfa.state,
     options  |-> Merge(user_mfa.options, options)]

\* prepare_to_enable writing the new type and options into user_vo.mfa itself,
\* so that they stay there when the type turns out not to be supported.
prepare_to_enable_local_in_place(u, mfa_type, options, s, i, sent) ==
    LET user_mfa == _get_user_mfa_as_dict(u) IN
    IF _check_mfa_is_enforced(user_mfa, mfa_type)
    THEN Raise("InvalidParameter", u, s, i, {}, {})
    ELSE IF user_mfa.state = "ENABLED"
    THEN Raise("AlreadyEnabled", u, s, i, {}, {})
    ELSE IF _check_mfa_options(options, mfa_type)
    THEN Raise("RequiredParameter", u, s, i, {}, {})
    ELSE IF ~get_manager_by_mfa_type(mfa_type)
    THEN Result("NotSupportedMFAType", prepared_mfa(user_mfa, mfa_type, options),
                u.required_actions, s, i, {}, {"get_manager_by_mfa_type"})
    ELSE IF ~sent
    THEN Raise("StrategyError", u, s, i, {}, {"get_manager_by_mfa_type", "enable_mfa"})
    ELSE LET e == enable_mfa(prepared_mfa(user_mfa, mfa_type, options), s, i) IN
         Result("OK", e.mfa, u.required_actions, e.secrets, e.issued, {},
                {"get_manager_by_mfa_type", "enable_mfa"})

prepare_to_enable_local(u, mfa_type, options, s, i, sent) ==
    LET user_mfa == _get_user_mfa_as_dict(u) IN
    IF _check_mfa_is_enforced(user_mfa, mfa_type)
    THEN Raise("InvalidParameter", u, s, i, {}, {})
    ELSE IF user_mfa.state = "ENABLED"
    THEN Raise("AlreadyEnabled", u, s, i, {}, {})
    ELSE IF _check_mfa_options(options, mfa_type)
    THEN Raise("RequiredParameter", u, s, i, {}, {})
    ELSE IF ~get_manager_by_mfa_type(mfa_type)
    THEN Raise("NotSupportedMFAType", u, s, i, {}, {"get_manager_by_mfa_type"})
    ELSE IF ~sent
    THEN Raise("StrategyError", u, s, i, {}, {"get_manager_by_mfa_type", "enable_mfa"})
    ELSE LET e == enable_mfa(prepared_mfa(user_mfa, mfa_type, options), s, i) IN
         Result("OK", e.mfa, u.required_actions, e.secrets, e.issued, {},
                {"get_manager_by_mfa_type", "enable_mfa"})

\* prepare_to_enable without the auth_type check.
prepare_to_enable_unguarded(u, mfa_type, options, s, i, sent) ==
    prepare_to_enable_local(u, mfa_type, options, s, i, sent)

prepare_to_enable(u, mfa_type, options, s, i, sent) ==
    IF u.auth_type = "EXTERNAL"
    THEN Raise("NotAllowed", u, s, i, {}, {})
    ELSE prepare_to_enable_local(u, mfa_type, options, s, i, sent)

\* confirm_and_enable without the removal of ENFORCE_MFA.
confirm_and_enable_keeps_action(u, s, i, code_ok) ==
    LET user_mfa == _get_user_mfa_for_confirmation(u) IN
    IF user_mfa.mfa_type = Absent
    THEN Raise("KeyError", u, s, i, {}, {})
    ELSE IF ~get_manager_by_mfa_type(user_mfa.mfa_type)
    THEN Raise("NotSupportedMFAType", u, s, i, {}, {"get_manager_by_mfa_type"})
    ELSE IF confirm_mfa(user_mfa, s, code_ok)
    THEN Result("OK",
                [set_mfa_options(user_mfa) EXCEPT !.state = "ENABLED"],
                u.required_actions,
                s, i, {}, {"get_manager_by_mfa_type", "confirm_mfa", "set_mfa_options"})
    ELSE Raise("InvalidVerifyCode", u, s, i, {}, {"get_manager_by_mfa_type", "confirm_mfa"})

confirm_and_enable(u, s, i, code_ok) ==
    LET user_mfa == _get_user_mfa_for_confirmation(u) IN
    IF user_mfa.mfa_type = Absent
    THEN Raise("KeyError", u, s, i, {}, {})
    ELSE IF ~get_manager_by_mfa_type(user_mfa.mfa_type)
    THEN Raise("NotSupportedMFAType", u, s, i, {}, {"get_manager_by_mfa_type"})
    ELSE IF confirm_mfa(user_mfa, s, code_ok)
    THEN Result("OK",
                [set_mfa_options(user_mfa) EXCEPT !.state = "ENABLED"],
                u.required_actions \ {"ENFORCE_MFA"},
                s, i, {}, {"get_manager_by_mfa_type", "confirm_mfa", "set_mfa_options"})
    ELSE Raise("InvalidVerifyCode", u, s, i, {}, {"get_manager_by_mfa_type", "confirm_mfa"})

\* confirm_and_disable reading enforce from the mfa dict, not from its options:
\* it never finds it.
confirm_and_disable_never_enforced(u, s, i, code_ok) ==
    LET user_mfa    == _get_user_mfa_for_confirmation(u)
        is_enforced == FALSE
    IN
    IF user_mfa.mfa_type = Absent
    THEN Raise("KeyError", u, s, i, {}, {})
    ELSE IF ~get_manager_by_mfa_type(user_mfa.mfa_type)
    THEN Raise("NotSupportedMFAType", u, s, i, {}, {"get_manager_by_mfa_type"})
    ELSE IF confirm_mfa(user_mfa, s, code_ok)
    THEN Result("OK",
                [mfa_type |-> IF is_enforced THEN user_mfa.mfa_type ELSE Absent,
                 state    |-> "DISABLED",
                 options  |-> user_mfa.options],
                IF is_enforced THEN u.required_actions \cup {"ENFORCE_MFA"}
                               ELSE u.required_actions,
                s, i, {}, {"get_manager_by_mfa_type", "confirm_mfa"})
    ELSE Raise("InvalidVerifyCode", u, s, i, {}, {"get_manager_by_mfa_type", "confirm_mfa"})

\* confirm_and_disable with True as the default of a missing enforce key.
confirm_and_disable_default_enforced(u, s, i, code_ok) ==
    LET user_mfa    == _get_user_mfa_for_confirmation(u)
        is_enforced == IF Has(user_mfa.options, "enforce")
                       THEN Truthy(user_mfa.options, "enforce")
                       ELSE TRUE
    IN
    IF user_mfa.mfa_type = Absent
    THEN Raise("KeyError", u, s, i, {}, {})
    ELSE IF ~get_manager_by_mfa_type(user_mfa.mfa_type)
    THEN Raise("NotSupportedMFAType", u, s, i, {}, {"get_manager_by_mfa_type"})
    ELSE IF confirm_mfa(user_mfa, s, code_ok)
    THEN Result("OK",
                [mfa_type |-> IF is_enforced THEN user_mfa.mfa_type ELSE Absent,
                 state    |-> "DISABLED",
                 options  |-> user_mfa.options],
                IF is_enforced THEN u.required_actions \cup {"ENFORCE_MFA"}
                               ELSE u.required_actions,
                s, i, {}, {"get_manager_by_mfa_type", "confirm_mfa"})
    ELSE Raise("InvalidVerifyCode", u, s, i, {}, {"get_manager_by_mfa_type", "confirm_mfa"})

confirm_and_disable(u, s, i, code_ok) ==
    LET user_mfa    == _get_user_mfa_for_confirmation(u)
        is_enforced == Truthy(user_mfa.options, "enforce")
    IN
    IF user_mfa.mfa_type = Absent
    THEN Raise("KeyError", u, s, i, {}, {})
    ELSE IF ~get_manager_by_mfa_type(user_mfa.mfa_type)
    THEN Raise("NotSupportedMFAType", u, s, i, {}, {"get_manager_by_mfa_type"})
    ELSE IF confirm_mfa(user_mfa, s, code_ok)
    THEN Result("OK",
                [mfa_type |-> IF is_enforced THEN user_mfa.mfa_type ELSE Absent,
                 state    |-> "DISABLED",
                 options  |-> user_mfa.options],
                IF is_enforced THEN u.required_actions \cup {"ENFORCE_MFA"}
                               ELSE u.required_actions,
                s, i, {}, {"get_manager_by_mfa_type", "confirm_mfa"})
    ELSE Raise("InvalidVerifyCode", u, s, i, {}, {"get_manager_by_mfa_type", "confirm_mfa"})

(***************************************************************************)
(* Actions: one call of an operation; the caller persists what it returns  *)
(* (the user is as it was when the operation raises). up, sent and code_ok *)
(* are what the collaborators answer during the call. A call is taken     *)
(* while the Secret Store has an id left to hand out (MaxSecrets).         *)
(***************************************************************************)
Persist(name, t, o, up, r) ==
    /\ mfa' = r.mfa
    /\ required_actions' = r.required_actions
    /\ secrets' = r.secrets
    /\ issued' = r.issued
    /\ op' = name
    /\ err' = r.err
    /\ arg_type' = t
    /\ arg_options' = o
    /\ store_up' = up
    /\ enforced_type' =
           IF r.err # "OK" THEN enforced_type
           ELSE IF name = "SetEnforcement" THEN t
           ELSE IF name \in {"PrepareToEnable", "ConfirmAndEnable", "ConfirmAndDisable"}
                THEN enforced_type
           ELSE Absent
    /\ pre' = [mfa |-> mfa, required_actions |-> required_actions, secrets |-> secrets]
    /\ deletes' = r.deletes
    /\ calls' = r.calls
    /\ \A id \in r.deletes \cap DOMAIN delete_requests :
           delete_requests[id] < MaxDeleteRequests
    /\ delete_requests' = [id \in DOMAIN delete_requests |->
                               IF id \in r.deletes THEN delete_requests[id] + 1
                                                   ELSE delete_requests[id]]
    /\ UNCHANGED <<auth_type, inflight, arbitration>>
    /\ UNCHANGED smtp_vars

SetEnforcement ==
    \E t \in RequestTypes, up \in BOOLEAN :
        LET r == set_enforcement(User, t, secrets, issued, up) IN
        /\ r.issued <= MaxSecrets
        /\ Persist("SetEnforcement", t, EmptyOptions, up, r)

UnsetEnforcement ==
    LET r == unset_enforcement(User, secrets, issued) IN
    /\ r.issued <= MaxSecrets
    /\ Persist("UnsetEnforcement", Absent, EmptyOptions, TRUE, r)

ResetUserMFA ==
    \E up \in BOOLEAN :
        LET r == reset_user_mfa(User, secrets, issued, up) IN
        /\ r.issued <= MaxSecrets
        /\ Persist("ResetUserMFA", Absent, EmptyOptions, up, r)

PrepareToEnable ==
    \E t \in RequestTypes, o \in CallerOptions, sent \in BOOLEAN :
        LET r == prepare_to_enable(User, t, o, secrets, issued, sent) IN
        /\ r.issued <= MaxSecrets
        /\ Persist("PrepareToEnable", t, o, TRUE, r)

ConfirmAndEnable ==
    \E code_ok \in BOOLEAN :
        LET r == confirm_and_enable(User, secrets, issued, code_ok) IN
        /\ r.issued <= MaxSecrets
        /\ Persist("ConfirmAndEnable", Absent, EmptyOptions, TRUE, r)

ConfirmAndDisable ==
    \E code_ok \in BOOLEAN :
        LET r == confirm_and_disable(User, secrets, issued, code_ok) IN
        /\ r.issued <= MaxSecrets
        /\ Persist("ConfirmAndDisable", Absent, EmptyOptions, TRUE, r)

Next ==
    \/ SetEnforcement
    \/ UnsetEnforcement
    \/ ResetUserMFA
    \/ PrepareToEnable
    \/ ConfirmAndEnable
    \/ ConfirmAndDisable

\* The two callers of the service layer and the operations each one calls.
Callers == {"admin", "user"}

AdminOps == {"SetEnforcement", "UnsetEnforcement", "ResetUserMFA"}

UserOps == {"PrepareToEnable", "ConfirmAndEnable", "ConfirmAndDisable"}

\* No call in flight.
Idle == [name |-> "none"]

\* The options the user passes while the callers race: an email or none.
RaceOptions == {o \in CallerOptions : ~Has(o, "enforce")}

\* self.smtp = None.
NoConn == 0

\* No connector call yet.
NoMailCall ==
    [connector |-> "none", name |-> "none", err |-> "OK", held |-> NoConn,
     over |-> NoConn, can_connect |-> FALSE]

\* Connectors as constructed, nothing sent.
NoMail ==
    /\ f_smtp = NoConn
    /\ p_smtp = NoConn
    /\ p_block = "before"
    /\ p_opened = {}
    /\ conn_count = 0
    /\ conn_open = {}
    /\ conn_authed = {}
    /\ last = NoMailCall

NoCall ==
    /\ methods = <<"basic">>
    /\ NoMail
    /\ inflight = [c \in Callers |-> Idle]
    /\ arbitration = FALSE
    /\ op = "none"
    /\ err = "OK"
    /\ arg_type = Absent
    /\ arg_options = EmptyOptions
    /\ store_up = TRUE
    /\ pre = [mfa |-> mfa, required_actions |-> required_actions, secrets |-> secrets]
    /\ deletes = {}
    /\ calls = {}

\* A new user: default mfa, no secret, possibly other required actions.
Init ==
    /\ auth_type \in AuthTypes
    /\ mfa = DefaultMFA
    /\ required_actions \in SUBSET (ActionTags \ {"ENFORCE_MFA"})
    /\ secrets = {}
    /\ issued = 0
    /\ enforced_type = Absent
    /\ delete_requests = [id \in {} |-> 0]
    /\ NoCall

Spec == Init /\ [][Next]_vars

(***************************************************************************)
(* SpecDel: Spec with the deletion requests of every secret id counted.    *)
(***************************************************************************)
InitDel ==
    /\ auth_type \in AuthTypes
    /\ mfa = DefaultMFA
    /\ required_actions \in SUBSET (ActionTags \ {"ENFORCE_MFA"})
    /\ secrets = {}
    /\ issued = 0
    /\ enforced_type = Absent
    /\ delete_requests = [id \in SecretIds |-> 0]
    /\ NoCall

SpecDel == InitDel /\ [][Next]_vars

(***************************************************************************)
(* SpecAny: the operations applied to any user record of the stored shape  *)
(* (the operations are functions of the user the caller passes in).        *)
(***************************************************************************)
\* The options a stored mfa may hold when i secret ids have been handed out.
StoredOptions(i) ==
    { Merge(o, m) :
        o \in CallerOptions,
        m \in {EmptyOptions} \cup {[k \in {"user_secret_id"} |-> id] : id \in 1..i} }

InitAny ==
    /\ auth_type \in AuthTypes
    /\ issued \in 0..MaxSecrets
    /\ secrets \in SUBSET (1..issued)
    /\ mfa \in [mfa_type : {Absent} \cup SupportedTypes,
                state    : MFAStates,
                options  : StoredOptions(issued)]
    /\ mfa.state = "ENABLED" => mfa.mfa_type # Absent
    /\ required_actions \in SUBSET ActionTags
    /\ enforced_type = (IF Truthy(mfa.options, "enforce") THEN mfa.mfa_type ELSE Absent)
    /\ delete_requests = [id \in {} |-> 0]
    /\ NoCall

SpecAny == InitAny /\ [][Next]_vars

(***************************************************************************)
(* SpecRace: two callers, an admin and the user, work on the same user     *)
(* record. A call loads the record and runs (its Secret Store and strategy *)
(* calls happen then); the caller persists what it returned in a later     *)
(* step. A call that raises returns nothing to persist. With arbitration   *)
(* the storage layer rejects a persist whose loaded mfa is not the stored  *)
(* one any more.                                                           *)
(***************************************************************************)
\* The operation called name, on user u; answer is what the Type Strategy
\* answers (challenge sent, code accepted).
Apply(name, u, t, o, s, i, up, answer) ==
    CASE name = "SetEnforcement"    -> set_enforcement(u, t, s, i, up)
      [] name = "UnsetEnforcement"  -> unset_enforcement(u, s, i)
      [] name = "ResetUserMFA"      -> reset_user_mfa(u, s, i, up)
      [] name = "PrepareToEnable"   -> prepare_to_enable(u, t, o, s, i, answer)
      [] name = "ConfirmAndEnable"  -> confirm_and_enable(u, s, i, answer)
      [] name = "ConfirmAndDisable" -> confirm_and_disable(u, s, i, answer)

\* A compare-and-swap that looks at the state field only.
Stale_state_only(loaded) == loaded.mfa.state # mfa.state

\* The compare-and-swap on the mfa field: the loaded mfa is not the stored one.
Stale(loaded) == loaded.mfa # mfa

Begin(c, name, t, o, up, answer) ==
    LET r == Apply(name, User, t, o, secrets, issued, up, answer) IN
    /\ inflight[c] = Idle
    /\ r.issued <= MaxRaceSecrets
    /\ secrets' = r.secrets
    /\ issued' = r.issued
    /\ inflight' =
           IF r.err # "OK" THEN inflight
           ELSE [inflight EXCEPT ![c] =
                    [name             |-> name,
                     arg_type         |-> t,
                     arg_options      |-> o,
                     loaded           |-> [mfa |-> mfa, required_actions |-> required_actions],
                     mfa              |-> r.mfa,
                     required_actions |-> r.required_actions]]
    /\ UNCHANGED <<auth_type, mfa, required_actions, op, err, arg_type, arg_options,
                   store_up, pre, enforced_type, deletes, calls, delete_requests,
                   arbitration>>
    /\ UNCHANGED smtp_vars

AdminBegin ==
    \E name \in AdminOps, t \in RequestTypes, up \in BOOLEAN :
        /\ name # "SetEnforcement" => t = "OTP"
        /\ Begin("admin", name, IF name = "SetEnforcement" THEN t ELSE Absent,
                 EmptyOptions, up, TRUE)

UserBegin ==
    \E name \in UserOps, t \in RequestTypes, o \in RaceOptions, answer \in BOOLEAN :
        /\ name # "PrepareToEnable" => (t = "OTP" /\ o = EmptyOptions)
        /\ Begin("user", name, IF name = "PrepareToEnable" THEN t ELSE Absent,
                 o, TRUE, answer)

\* The caller persists what its call returned, or the storage layer rejects it.
Finish ==
    \E c \in Callers :
        LET f        == inflight[c]
            rejected == arbitration /\ Stale(f.loaded)
        IN
        /\ f # Idle
        /\ inflight' = [inflight EXCEPT ![c] = Idle]
        /\ mfa' = IF rejected THEN mfa ELSE f.mfa
        /\ required_actions' = IF rejected THEN required_actions ELSE f.required_actions
        /\ op' = f.name
        /\ err' = IF rejected THEN "Stale" ELSE "OK"
        /\ arg_type' = f.arg_type
        /\ arg_options' = f.arg_options
        /\ pre' = [mfa |-> mfa, required_actions |-> required_actions, secrets |-> secrets]
        /\ UNCHANGED <<auth_type, secrets, issued, store_up, enforced_type, deletes,
                       calls, delete_requests, arbitration>>
        /\ UNCHANGED smtp_vars

NextRace ==
    \/ AdminBegin
    \/ UserBegin
    \/ Finish

InitRace ==
    /\ auth_type = "LOCAL"
    /\ mfa = DefaultMFA
    /\ required_actions = {}
    /\ secrets = {}
    /\ issued = 0
    /\ enforced_type = Absent
    /\ delete_requests = [id \in {} |-> 0]
    /\ inflight = [c \in Callers |-> Idle]
    /\ arbitration \in BOOLEAN
    /\ methods = <<"basic">>
    /\ NoMail
    /\ op = "none"
    /\ err = "OK"
    /\ arg_type = Absent
    /\ arg_options = EmptyOptions
    /\ store_up = TRUE
    /\ pre = [mfa |-> mfa, required_actions |-> required_actions, secrets |-> secrets]
    /\ deletes = {}
    /\ calls = {}

SpecRace == InitRace /\ [][NextRace]_vars

(***************************************************************************)
(* SpecSMTP: the two SMTP connectors. The fallback connector                *)
(* (connector/smtp_connector.py) tries its configured methods in the order *)
(* gmail, microsoft, basic; a provider connector                           *)
(* (connector/smtp_connector/base.py and its subclasses) has one method    *)
(* and is used in a with-block. A connection attempt fails before the      *)
(* smtplib.SMTP object exists (configuration, token, refused connection),  *)
(* fails after it (TLS, authentication), or succeeds.                      *)
(***************************************************************************)
TryOutcomes == {"ok", "fail_before_open", "fail_after_open"}

\* self._connection_methods: the configured ones of gmail, microsoft, basic,
\* in this order, at least one.
MethodLists ==
    {<<"gmail">>, <<"microsoft">>, <<"basic">>,
     <<"gmail", "microsoft">>, <<"gmail", "basic">>, <<"microsoft", "basic">>,
     <<"gmail", "microsoft", "basic">>}

\* The connector's self.smtp and the connections, as one value.
Mail(smtp, count, open, authed, connected) ==
    [smtp |-> smtp, count |-> count, open |-> open, authed |-> authed,
     connected |-> connected]

\* _try_gmail, _try_microsoft, _try_basic: self.smtp is assigned as soon as
\* the connection exists, and stays assigned when the attempt fails later.
_try(out, st) ==
    IF out = "fail_before_open"
    THEN [st EXCEPT !.connected = FALSE]
    ELSE Mail(st.count + 1, st.count + 1, st.open \cup {st.count + 1},
              IF out = "ok" THEN st.authed \cup {st.count + 1} ELSE st.authed,
              out = "ok")

RECURSIVE try_in_order(_, _, _, _)
try_in_order(ms, outs, k, st) ==
    IF k > Len(ms)
    THEN [st EXCEPT !.connected = FALSE]
    ELSE LET n == _try(outs[k], st) IN
         IF n.connected THEN n ELSE try_in_order(ms, outs, k + 1, n)

\* connected = FALSE: ERROR_SMTP_CONNECTION_FAILED is raised.
_connect(ms, outs, st) ==
    IF st.smtp # NoConn
    THEN [st EXCEPT !.connected = TRUE]
    ELSE try_in_order(ms, outs, 1, st)

\* self.smtp.sendmail: refused on a connection that is closed or has not
\* authenticated (an smtplib.SMTPException), else as the server answers.
sendmail(st, accepted) ==
    st.smtp \in st.open /\ st.smtp \in st.authed /\ accepted

\* quit_smtp: self.smtp.quit() closes the connection also when it raises;
\* self.smtp is set to None only when it does not raise.
quit_smtp(st, quit_ok) ==
    IF st.smtp = NoConn
    THEN st
    ELSE [st EXCEPT !.open = @ \ {st.smtp},
                    !.smtp = IF quit_ok THEN NoConn ELSE st.smtp]

\* The provider connector's connect: always a new connection.
connect(out, st) ==
    IF out = "fail_before_open"
    THEN [st EXCEPT !.connected = FALSE]
    ELSE Mail(st.count + 1, st.count + 1, st.open \cup {st.count + 1},
              IF out = "ok" THEN st.authed \cup {st.count + 1} ELSE st.authed,
              out = "ok")

Fallback == Mail(f_smtp, conn_count, conn_open, conn_authed, FALSE)

Provider == Mail(p_smtp, conn_count, conn_open, conn_authed, FALSE)

\* send_email of the fallback connector.
FallbackSendEmail ==
    \E outs \in [1..Len(methods) -> TryOutcomes], accepted \in BOOLEAN :
        LET st == _connect(methods, outs, Fallback) IN
        /\ st.count <= MaxConns
        /\ f_smtp' = st.smtp
        /\ conn_count' = st.count
        /\ conn_open' = st.open
        /\ conn_authed' = st.authed
        /\ last' = [connector   |-> "fallback",
                    name        |-> "send_email",
                    err         |-> IF ~st.connected THEN "ERROR_SMTP_CONNECTION_FAILED"
                                    ELSE IF sendmail(st, accepted) THEN "OK"
                                    ELSE "ERROR_SMTP_SEND_EMAIL_FAILED",
                    held        |-> f_smtp,
                    over        |-> IF st.connected THEN st.smtp ELSE NoConn,
                    can_connect |-> \E k \in 1..Len(methods) : outs[k] = "ok"]
        /\ UNCHANGED <<methods, p_smtp, p_block, p_opened>>
        /\ UNCHANGED mfa_vars

\* quit_smtp of the fallback connector, called directly or by __exit__.
FallbackQuit ==
    \E name \in {"quit_smtp", "__exit__"}, quit_ok \in BOOLEAN :
        LET st == quit_smtp(Fallback, quit_ok) IN
        /\ f_smtp' = st.smtp
        /\ conn_open' = st.open
        /\ last' = [connector |-> "fallback", name |-> name, err |-> "OK",
                    held |-> f_smtp, over |-> NoConn, can_connect |-> FALSE]
        /\ UNCHANGED <<methods, p_smtp, p_block, p_opened, conn_count, conn_authed>>
        /\ UNCHANGED mfa_vars

\* __enter__ of a provider connector.
ProviderEnter ==
    /\ p_block = "before"
    /\ p_block' = "inside"
    /\ last' = [connector |-> "provider", name |-> "__enter__", err |-> "OK",
                held |-> p_smtp, over |-> NoConn, can_connect |-> FALSE]
    /\ UNCHANGED <<methods, f_smtp, p_smtp, p_opened, conn_count, conn_open, conn_authed>>
    /\ UNCHANGED mfa_vars

\* send_email of a provider connector, inside the with-block.
ProviderSendEmail ==
    \E out \in TryOutcomes, accepted \in BOOLEAN :
        LET st == connect(out, Provider) IN
        /\ p_block = "inside"
        /\ st.count <= MaxConns
        /\ p_smtp' = st.smtp
        /\ conn_count' = st.count
        /\ conn_open' = st.open
        /\ conn_authed' = st.authed
        /\ p_opened' = p_opened \cup (st.open \ conn_open)
        /\ last' = [connector   |-> "provider",
                    name        |-> "send_email",
                    err         |-> IF ~st.connected THEN "ERROR_SMTP_CONNECTION_FAILED"
                                    ELSE IF sendmail(st, accepted) THEN "OK"
                                    ELSE "ERROR_SMTP_SEND_EMAIL_FAILED",
                    held        |-> p_smtp,
                    over        |-> IF st.connected THEN st.smtp ELSE NoConn,
                    can_connect |-> out = "ok"]
        /\ UNCHANGED <<methods, f_smtp, p_block>>
        /\ UNCHANGED mfa_vars

\* __exit__ of a provider connector: quit_smtp.
ProviderExit ==
    \E quit_ok \in BOOLEAN :
        LET st == quit_smtp(Provider, quit_ok) IN
        /\ p_block = "inside"
        /\ p_block' = "after"
        /\ p_smtp' = st.smtp
        /\ conn_open' = st.open
        /\ last' = [connector |-> "provider", name |-> "__exit__", err |-> "OK",
                    held |-> p_smtp, over |-> NoConn, can_connect |-> FALSE]
        /\ UNCHANGED <<methods, f_smtp, p_opened, conn_count, conn_authed>>
        /\ UNCHANGED mfa_vars

NextSMTP ==
    \/ FallbackSendEmail
    \/ FallbackQuit
    \/ ProviderEnter
    \/ ProviderSendEmail
    \/ ProviderExit

InitSMTP ==
    /\ methods \in MethodLists
    /\ NoMail
    /\ auth_type = "LOCAL"
    /\ mfa = DefaultMFA
    /\ required_actions = {}
    /\ secrets = {}
    /\ issued = 0
    /\ enforced_type = Absent
    /\ delete_requests = [id \in {} |-> 0]
    /\ inflight = [c \in Callers |-> Idle]
    /\ arbitration = FALSE
    /\ op = "none"
    /\ err = "OK"
    /\ arg_type = Absent
    /\ arg_options = EmptyOptions
    /\ store_up = TRUE
    /\ pre = [mfa |-> mfa, required_actions |-> required_actions, secrets |-> secrets]
    /\ deletes = {}
    /\ calls = {}

SpecSMTP == InitSMTP /\ [][NextSMTP]_vars

(***************************************************************************)
(* Properties.                                                             *)
(***************************************************************************)
Called == op # "none"

Enforced == Truthy(mfa.options, "enforce")

HasSecretRef == Has(mfa.options, "user_secret_id")

\* The enforce entry of an options mapping: {} when absent, {TRUE} or {FALSE}.
EnforceOf(o) == IF Has(o, "enforce") THEN {o["enforce"]} ELSE {}

\* C1: after every operation, options.enforce = true and state = DISABLED
\* imply that ENFORCE_MFA is in required_actions.
C1_EnforcedDisabledIsRequired ==
    (Called /\ Enforced /\ mfa.state = "DISABLED")
        => "ENFORCE_MFA" \in required_actions

\* C2: after every operation, state = DISABLED and options.enforce not true
\* imply that mfa_type is absent.
C2_DisabledUnenforcedHasNoType ==
    (Called /\ mfa.state = "DISABLED" /\ ~Enforced) => mfa.mfa_type = Absent

\* C2 (amended): after every successful SetEnforcement, UnsetEnforcement,
\* ResetUserMFA, ConfirmAndEnable and ConfirmAndDisable, state = DISABLED and
\* options.enforce not true imply that mfa_type is absent.
C2_DisabledUnenforcedHasNoTypeUnlessPrepared ==
    (/\ op \in {"SetEnforcement", "UnsetEnforcement", "ResetUserMFA",
                "ConfirmAndEnable", "ConfirmAndDisable"}
     /\ err = "OK"
     /\ mfa.state = "DISABLED"
     /\ ~Enforced)
        => mfa.mfa_type = Absent

\* An UnsetEnforcement has cleared the type of a user whose state is DISABLED.
C2_Witness ==
    /\ op = "UnsetEnforcement"
    /\ pre.mfa.mfa_type = "OTP"
    /\ mfa.state = "DISABLED"
    /\ mfa.mfa_type = Absent

\* C3: after every operation, a user whose options.user_secret_id names a secret
\* that exists in the Secret Store has mfa_type = OTP.
C3_LiveSecretRefOnlyForOTP ==
    (Called /\ HasSecretRef /\ mfa.options["user_secret_id"] \in secrets)
        => mfa.mfa_type = "OTP"

\* C4: no operation on an EXTERNAL user changes mfa, or adds or removes
\* ENFORCE_MFA in required_actions.
C4_ExternalUserUntouched ==
    (Called /\ auth_type = "EXTERNAL")
        => /\ mfa = pre.mfa
           /\ ("ENFORCE_MFA" \in required_actions) = ("ENFORCE_MFA" \in pre.required_actions)

\* C5: SetEnforcement and PrepareToEnable on an EXTERNAL user fail with
\* NotAllowed before any other check, Secret Store deletion or Type Strategy
\* call, and leave the user and the Secret Store unchanged.
C5_ExternalNotAllowedFirst ==
    (op \in {"SetEnforcement", "PrepareToEnable"} /\ auth_type = "EXTERNAL")
        => /\ err = "NotAllowed"
           /\ mfa = pre.mfa
           /\ required_actions = pre.required_actions
           /\ secrets = pre.secrets
           /\ deletes = {}
           /\ calls = {}

\* PrepareToEnable on an EXTERNAL user that a later check would have rejected
\* too (MFA already enabled, EMAIL without an email option).
C5_Witness ==
    /\ op = "PrepareToEnable"
    /\ auth_type = "EXTERNAL"
    /\ pre.mfa.state = "ENABLED"
    /\ arg_type = "EMAIL"
    /\ ~Has(arg_options, "email")
    /\ err = "NotAllowed"

\* C6: PrepareToEnable, ConfirmAndEnable, ConfirmAndDisable and ResetUserMFA
\* leave options.enforce exactly as it was.
C6_EnforceOnlyChangedByEnforcementOps ==
    op \in {"PrepareToEnable", "ConfirmAndEnable", "ConfirmAndDisable", "ResetUserMFA"}
        => EnforceOf(mfa.options) = EnforceOf(pre.mfa.options)

\* C7: when SetEnforcement or PrepareToEnable changes mfa_type, no option key
\* other than enforce is left over from the options stored before (a key the
\* caller passed, or a reference the strategy has just provisioned, is not a
\* left-over).
C7_TypeSwitchDiscardsOptions ==
    (/\ op \in {"SetEnforcement", "PrepareToEnable"}
     /\ err = "OK"
     /\ mfa.mfa_type # pre.mfa.mfa_type)
        => \A k \in (DOMAIN pre.mfa.options) \ ({"enforce"} \cup DOMAIN arg_options) :
               ~(Has(mfa.options, k) /\ mfa.options[k] = pre.mfa.options[k])

\* C8: SetEnforcement on a LOCAL user whose stored type differs from the
\* requested one returns the requested type, state DISABLED, options
\* {enforce: true} and ENFORCE_MFA, and the secret a stored OTP type referred
\* to is no longer in the Secret Store (stated for the calls during which the
\* Secret Store answers).
C8_TypeSwitchResult ==
    (/\ op = "SetEnforcement"
     /\ auth_type = "LOCAL"
     /\ pre.mfa.mfa_type # arg_type
     /\ store_up)
        => /\ err = "OK"
           /\ mfa = [mfa_type |-> arg_type, state |-> "DISABLED", options |-> EnforceOnly]
           /\ "ENFORCE_MFA" \in required_actions
           /\ (pre.mfa.mfa_type = "OTP" /\ Has(pre.mfa.options, "user_secret_id"))
                  => pre.mfa.options["user_secret_id"] \notin secrets

\* C9: SetEnforcement is idempotent: after a SetEnforcement that returned and
\* was persisted, the same call again returns the same mfa and the same
\* required_actions, leaves the Secret Store as it is and deletes nothing,
\* whether or not the Secret Store answers.
C9_SetEnforcementIdempotent ==
    (op = "SetEnforcement" /\ err = "OK")
        => \A up \in BOOLEAN :
               LET again == set_enforcement(User, arg_type, secrets, issued, up) IN
               /\ again.err = "OK"
               /\ again.mfa = mfa
               /\ again.required_actions = required_actions
               /\ again.secrets = secrets
               /\ again.deletes = {}

\* A first SetEnforcement that switched an enabled user's type away from OTP
\* and deleted its secret.
C9_Witness ==
    /\ op = "SetEnforcement"
    /\ err = "OK"
    /\ pre.mfa.mfa_type = "OTP"
    /\ pre.mfa.state = "ENABLED"
    /\ arg_type = "EMAIL"
    /\ deletes # {}

\* C10: a failing Secret Store deletion never makes SetEnforcement or
\* ResetUserMFA fail.
C10_DeleteFailureSwallowed ==
    op \in {"SetEnforcement", "ResetUserMFA"} => err # "SecretStoreError"

\* The ways an operation fails by the contract.
ContractErrors ==
    {"NotAllowed", "AlreadyEnabled", "AlreadyDisabled", "InvalidParameter",
     "RequiredParameter", "NotSupportedMFAType", "InvalidVerifyCode"}

\* C11: an operation that fails by the contract leaves mfa, required_actions
\* and the Secret Store as they were; and a ConfirmAndEnable or
\* ConfirmAndDisable whose code the Type Strategy rejects fails with
\* InvalidVerifyCode and returns nothing new.
C11_FailureChangesNothing ==
    /\ err \in ContractErrors
           => /\ mfa = pre.mfa
              /\ required_actions = pre.required_actions
              /\ secrets = pre.secrets
    /\ \A code_ok \in BOOLEAN :
           (get_manager_by_mfa_type(mfa.mfa_type) /\ ~confirm_mfa(mfa, secrets, code_ok))
               => \A r \in {confirm_and_enable(User, secrets, issued, code_ok),
                            confirm_and_disable(User, secrets, issued, code_ok)} :
                      /\ r.err = "InvalidVerifyCode"
                      /\ r.mfa = mfa
                      /\ r.required_actions = required_actions
                      /\ r.secrets = secrets

\* A ConfirmAndDisable of an enabled, enforced user was rejected for its code.
C11_Witness ==
    /\ op = "ConfirmAndDisable"
    /\ err = "InvalidVerifyCode"
    /\ pre.mfa.state = "ENABLED"
    /\ Truthy(pre.mfa.options, "enforce")
    /\ "ENFORCE_MFA" \notin required_actions

\* C12: state goes from DISABLED to ENABLED only in a ConfirmAndEnable whose
\* code the Type Strategy accepted.
C12_EnabledOnlyByConfirmation ==
    (Called /\ pre.mfa.state = "DISABLED" /\ mfa.state = "ENABLED")
        => /\ op = "ConfirmAndEnable"
           /\ err = "OK"
           /\ {"confirm_mfa", "set_mfa_options"} \subseteq calls

\* A ConfirmAndEnable has enabled a pending OTP enrollment.
C12_Witness ==
    /\ op = "ConfirmAndEnable"
    /\ pre.mfa.state = "DISABLED"
    /\ pre.mfa.mfa_type = "OTP"
    /\ mfa.state = "ENABLED"

\* C13: PrepareToEnable fails with InvalidParameter whenever enforce is true
\* and a stored type differs from the requested one, whatever the state and
\* the options; and while the enforcement of a type set by SetEnforcement is
\* followed only by PrepareToEnable, ConfirmAndEnable and ConfirmAndDisable,
\* mfa_type stays that type.
C13_EnforcedTypeIsExclusive ==
    /\ (/\ op = "PrepareToEnable"
        /\ Truthy(pre.mfa.options, "enforce")
        /\ pre.mfa.mfa_type # Absent
        /\ pre.mfa.mfa_type # arg_type)
           => err = "InvalidParameter"
    /\ (/\ op \in {"PrepareToEnable", "ConfirmAndEnable", "ConfirmAndDisable"}
        /\ enforced_type # Absent)
           => mfa.mfa_type = enforced_type

\* C14: for a user with enforce true and state ENABLED, a successful
\* ConfirmAndDisable or ResetUserMFA yields state DISABLED, the same mfa_type
\* and ENFORCE_MFA in required_actions.
C14_EnforcementSurvivesDisable ==
    (/\ op \in {"ConfirmAndDisable", "ResetUserMFA"}
     /\ err = "OK"
     /\ Truthy(pre.mfa.options, "enforce")
     /\ pre.mfa.state = "ENABLED")
        => /\ mfa.state = "DISABLED"
           /\ mfa.mfa_type = pre.mfa.mfa_type
           /\ "ENFORCE_MFA" \in required_actions

\* A ConfirmAndDisable has disabled an enforced OTP and put ENFORCE_MFA back.
C14_Witness ==
    /\ op = "ConfirmAndDisable"
    /\ err = "OK"
    /\ Truthy(pre.mfa.options, "enforce")
    /\ pre.mfa.state = "ENABLED"
    /\ pre.mfa.mfa_type = "OTP"
    /\ "ENFORCE_MFA" \notin pre.required_actions
    /\ "ENFORCE_MFA" \in required_actions

C16_ConfirmAndEnableResult ==
    (op = "ConfirmAndEnable" /\ err = "OK")
        => /\ mfa.state = "ENABLED"
           /\ mfa.mfa_type = pre.mfa.mfa_type
           /\ mfa.options = set_mfa_options(pre.mfa).options
           /\ required_actions = pre.required_actions \ {"ENFORCE_MFA"}

\* A ConfirmAndEnable has satisfied an enforcement and kept another action.
C16_Witness ==
    /\ op = "ConfirmAndEnable"
    /\ err = "OK"
    /\ pre.mfa.state = "DISABLED"
    /\ "ENFORCE_MFA" \in pre.required_actions
    /\ required_actions = {"UPDATE_PASSWORD"}

\* C17: ResetUserMFA fails with AlreadyDisabled exactly when the state is
\* DISABLED or mfa_type is absent; it then deletes nothing from the Secret
\* Store and changes nothing; in every other state it succeeds.
C17_ResetFailsOnlyWhenDisabled ==
    op = "ResetUserMFA"
        => /\ err = "AlreadyDisabled"
                  <=> (pre.mfa.state = "DISABLED" \/ pre.mfa.mfa_type = Absent)
           /\ err = "AlreadyDisabled"
                  => /\ deletes = {}
                     /\ mfa = pre.mfa
                     /\ required_actions = pre.required_actions
                     /\ secrets = pre.secrets
           /\ err # "AlreadyDisabled" => err = "OK"

\* C18: PrepareToEnable with type EMAIL and options without an email key
\* fails with RequiredParameter, and no Type Strategy lookup or EnableMFA call
\* happens before the failure.
C18_MissingEmailIsRequiredParameter ==
    (op = "PrepareToEnable" /\ arg_type = "EMAIL" /\ ~Has(arg_options, "email"))
        => /\ err = "RequiredParameter"
           /\ calls = {}

\* C18, amended: such a call always fails, with no Type Strategy call and
\* nothing changed; the failure is RequiredParameter exactly when the user is
\* LOCAL, no other type is enforced and the state is not ENABLED, and
\* otherwise the error of the earlier check (NotAllowed, InvalidParameter,
\* AlreadyEnabled, in this order).
C18_MissingEmailFailsBeforeStrategy ==
    (op = "PrepareToEnable" /\ arg_type = "EMAIL" /\ ~Has(arg_options, "email"))
        => /\ calls = {}
           /\ mfa = pre.mfa
           /\ required_actions = pre.required_actions
           /\ secrets = pre.secrets
           /\ err = IF auth_type = "EXTERNAL" THEN "NotAllowed"
                    ELSE IF _check_mfa_is_enforced(pre.mfa, "EMAIL") THEN "InvalidParameter"
                    ELSE IF pre.mfa.state = "ENABLED" THEN "AlreadyEnabled"
                    ELSE "RequiredParameter"

\* RequiredParameter for a user whose stored options already hold an email.
C18_Witness ==
    /\ op = "PrepareToEnable"
    /\ arg_type = "EMAIL"
    /\ ~Has(arg_options, "email")
    /\ Has(pre.mfa.options, "email")
    /\ err = "RequiredParameter"

\* C19: UnsetEnforcement returns options without enforce and required_actions
\* without ENFORCE_MFA; mfa_type is cleared in state DISABLED and kept in state
\* ENABLED; the state and every other option key are unchanged.
C19_UnsetEnforcementResult ==
    op = "UnsetEnforcement"
        => /\ err = "OK"
           /\ ~Has(mfa.options, "enforce")
           /\ "ENFORCE_MFA" \notin required_actions
           /\ mfa.mfa_type = (IF pre.mfa.state = "DISABLED" THEN Absent
                                                            ELSE pre.mfa.mfa_type)
           /\ mfa.state = pre.mfa.state
           /\ mfa.options = Pop(pre.mfa.options, "enforce")

\* An UnsetEnforcement on an enabled, enforced OTP kept the secret reference.
C19_Witness ==
    /\ op = "UnsetEnforcement"
    /\ pre.mfa.state = "ENABLED"
    /\ Truthy(pre.mfa.options, "enforce")
    /\ Has(pre.mfa.options, "user_secret_id")
    /\ Has(mfa.options, "user_secret_id")
    /\ mfa.mfa_type = "OTP"

\* C20: every operation, failed or not, keeps the membership of every
\* required-action tag other than ENFORCE_MFA.
C20_OnlyEnforceTagChanges ==
    Called => required_actions \ {"ENFORCE_MFA"} = pre.required_actions \ {"ENFORCE_MFA"}

\* A SetEnforcement added ENFORCE_MFA next to an action it kept.
C20_Witness ==
    /\ op = "SetEnforcement"
    /\ err = "OK"
    /\ pre.required_actions = {"UPDATE_PASSWORD"}
    /\ required_actions = {"ENFORCE_MFA", "UPDATE_PASSWORD"}

\* C21: in every reachable state mfa_type is absent, OTP or EMAIL; a
\* SetEnforcement or PrepareToEnable with any other type tag is rejected.
C21_OnlySupportedTypesStored ==
    /\ mfa.mfa_type \in {Absent} \cup SupportedTypes
    /\ (op \in {"SetEnforcement", "PrepareToEnable"} /\ arg_type \notin SupportedTypes)
           => err # "OK"

\* C23: in every reachable state a user_secret_id in the user's options
\* names a secret that exists in the Secret Store.
C23_NoDanglingSecretRef ==
    HasSecretRef => mfa.options["user_secret_id"] \in secrets

\* C24: when an operation returns options that no longer hold the
\* user_secret_id they held before the call, the operation has deleted that
\* secret from the Secret Store.
C24_NoOrphanedSecret ==
    (/\ Called
     /\ err = "OK"
     /\ Has(pre.mfa.options, "user_secret_id")
     /\ ~(HasSecretRef /\ mfa.options["user_secret_id"] = pre.mfa.options["user_secret_id"]))
        => pre.mfa.options["user_secret_id"] \notin secrets

\* C25: in every reachable state ENFORCE_MFA in required_actions implies
\* state = DISABLED.
C25_EnforceActionOnlyWhenDisabled ==
    "ENFORCE_MFA" \in required_actions => mfa.state = "DISABLED"

\* C26: from a user with default mfa, in every reachable state an absent
\* mfa_type implies state = DISABLED and options.enforce not true.
C26_AbsentTypeIsDisabledUnenforced ==
    mfa.mfa_type = Absent => (mfa.state = "DISABLED" /\ ~Enforced)

\* A ResetUserMFA has cleared the type of an enabled user whose options say
\* enforce = false.
C26_Witness ==
    /\ op = "ResetUserMFA"
    /\ err = "OK"
    /\ pre.mfa.state = "ENABLED"
    /\ Has(pre.mfa.options, "enforce")
    /\ mfa.mfa_type = Absent

\* C27: over any sequence of operations the Controller asks the Secret Store
\* to delete a given secret id at most once.
C27_DeleteRequestedAtMostOnce ==
    \A id \in DOMAIN delete_requests : delete_requests[id] <= 1

\* C22: when the storage layer rejects a persist whose loaded mfa is stale,
\* every persisted mfa and required_actions is what the persisted operation
\* returns on the user record it overwrote, so the persisted states are
\* those of a serial order of the successful operations. (Without the
\* rejection the last persist overwrites the other caller's effect:
\* C22_Witness.)
C22_ArbitratedPersistIsSerial ==
    (arbitration /\ Called /\ err = "OK")
        => \E up \in BOOLEAN, answer \in BOOLEAN, i \in 0..MaxRaceSecrets :
               \E s \in SUBSET (1..i) :
                   LET r == Apply(op, [auth_type        |-> auth_type,
                                       mfa              |-> pre.mfa,
                                       required_actions |-> pre.required_actions],
                                  arg_type, arg_options, s, i, up, answer)
                   IN /\ r.err = "OK"
                      /\ r.mfa = mfa
                      /\ r.required_actions = required_actions

\* Without arbitration: the admin's switch to an enforced EMAIL was persisted
\* and has deleted the OTP secret; the user's ConfirmAndEnable, run on the
\* record loaded before, is persisted over it: an ENABLED OTP without
\* enforcement whose secret is gone.
C22_Witness ==
    /\ ~arbitration
    /\ op = "ConfirmAndEnable"
    /\ err = "OK"
    /\ pre.mfa.mfa_type = "EMAIL"
    /\ Truthy(pre.mfa.options, "enforce")
    /\ mfa.mfa_type = "OTP"
    /\ mfa.state = "ENABLED"
    /\ ~Enforced
    /\ HasSecretRef
    /\ mfa.options["user_secret_id"] \notin secrets

\* C28: after __exit__ or quit_smtp the connector holds no connection
\* (smtp is None), also when the server-side quit fails.
C28_NoConnectionAfterQuit ==
    /\ (last.connector = "fallback" /\ last.name \in {"quit_smtp", "__exit__"})
           => f_smtp = NoConn
    /\ (last.connector = "provider" /\ last.name = "__exit__")
           => p_smtp = NoConn

\* C29: a send_email of the fallback connector made while no configured
\* method can connect and authenticate, by a connector that holds no
\* authenticated connection, raises ERROR_SMTP_CONNECTION_FAILED and issues no
\* sendmail; sendmail is never issued over a connection that has not
\* authenticated.
C29_AllMethodsFailedRaises ==
    (last.connector = "fallback" /\ last.name = "send_email")
        => /\ (~last.can_connect /\ last.held \notin conn_authed)
                  => (last.err = "ERROR_SMTP_CONNECTION_FAILED" /\ last.over = NoConn)
           /\ last.over # NoConn => last.over \in conn_authed

\* C30: of the connections a provider connector's send_email has opened, at
\* most one is open at any time, and none is open once the with-block has
\* been left.
C30_OneConnectionClosedAtExit ==
    /\ Cardinality(p_opened \cap conn_open) <= 1
    /\ p_block = "after" => p_opened \cap conn_open = {}

====
